---- MODULE Spec2Model ----
(***************************************************************************)
(* Model of tryton/stock_supply: the order point registry                  *)
(* (order_point.py), the internal shipment planner (shipment.py) and the   *)
(* supply wizard (stock.py).                                               *)
(* Quantities are integers, dates are day numbers with today = 0.          *)
(***************************************************************************)
EXTENDS Integers, Sequences, FiniteSets, TLC

\* ------------------------------------------------------------------------
\* Bounds of the model
\* ------------------------------------------------------------------------
\* number of order point records the registry may hold
MaxOps == 2
\* the two threshold quantities order points are given, MinQty < MaxQty
MinQty == 1
MaxQty == 2
\* largest configured lead time in days (the planner's horizon)
MaxLead == 1
\* number of top level planner invocations in one behaviour
MaxRuns == 2
\* depth of the recursion up to which a chain of invocations is followed
MaxDepth == 4

\* ------------------------------------------------------------------------
\* Value universe
\* ------------------------------------------------------------------------
None == "None"
\* the value None of an unset quantity field, below every quantity
NoQty == -99
Storages == {"P1", "L1", "L2"}
Warehouses == {"WH"}
Transit == "Transit"
Products == {"a", "b"}
\* the product the order points are written for
OrderedProducts == {"a"}
Companies == {"c1", "c2"}
\* the (min_quantity, target_quantity, max_quantity) a client sends: the
\* first three respect the ordering of the bounds, the last two do not
Thresholds ==
    {<<NoQty, MinQty, NoQty>>, <<MinQty, MinQty, NoQty>>,
     <<MinQty, MinQty, MaxQty>>,
     <<MaxQty, MinQty, NoQty>>, <<NoQty, MaxQty, MinQty>>}

VARIABLES
    ops,        \* stored order points (table stock.order_point)
    nextId,     \* next record id of the table
    error,      \* outcome of the last save: None or the raised message
    locProv,    \* location -> its provisioning_location (or None)
    stock,      \* location -> quantity on hand today
    demand,     \* day of a planned customer move of one unit out of L2 (0: none)
    lead,       \* LeadTime.get_max_lead_time() in days
    remote,     \* locations that belong to the second warehouse
    reqs,       \* internal shipments (table stock.shipment.internal), in
                \* creation order
    pc,         \* position of generate_internal_shipment
    stack,      \* frames of the recursive invocations: the shipments of each
    clean,      \* the clean argument of the running top level invocation
    runs,       \* number of top level invocations so far
    results,    \* request shipments left by each completed clean=True run
    wizard,     \* state of the supply wizard session
    warned,     \* name of the warning the last create_ raised, or None
    acks,       \* names of the warnings the user has acknowledged
    late,       \* kinds of draft moves planned before today
    calls,      \* the generate_<type> calls of the last create_ and their
                \* results: "shipments", "none" or the error raised
    inv,        \* concurrent planner invocations: position, clean argument,
                \* shipments computed and not yet saved, passes saved
    owners,     \* for each shipment, the concurrent invocation that saved
                \* it (0: none)
    raced       \* both concurrent invocations had read the forecast when
                \* the first of them saved

regVars == <<ops, nextId, error>>
cfgVars == <<locProv, stock, demand, lead, remote>>
planVars == <<reqs, pc, stack, clean, runs, results>>
wizVars == <<wizard, warned, acks, late, calls>>
conVars == <<inv, owners, raced>>
vars == <<ops, nextId, error, locProv, stock, demand, lead, remote,
          reqs, pc, stack, clean, runs, results,
          wizard, warned, acks, late, calls, inv, owners, raced>>

\* ------------------------------------------------------------------------
\* order_point.py: the registry
\* ------------------------------------------------------------------------
OrderPoint(id, type, product, wh, storage, prov, over, min, target, max, company) ==
    [id |-> id, type |-> type, product |-> product,
     warehouse_location |-> wh, storage_location |-> storage,
     provisioning_location |-> prov, overflowing_location |-> over,
     min_quantity |-> min, target_quantity |-> target, max_quantity |-> max,
     company |-> company]

\* the states 'required' of the fields
RequiredFields(op) ==
    /\ op.product # None /\ op.type # None /\ op.company # None
    /\ op.target_quantity # NoQty
    /\ op.type = "purchase" => op.warehouse_location # None
    /\ op.type = "internal" => op.storage_location # None
    /\ (op.type = "internal" /\ op.min_quantity # NoQty)
            => op.provisioning_location # None
    /\ (op.type = "internal" /\ op.max_quantity # NoQty)
            => op.overflowing_location # None
    /\ op.type # "internal" => op.min_quantity # NoQty

\* the domains of min_quantity, target_quantity and max_quantity
QuantityDomain_NoMin(op) ==
    \/ op.max_quantity = NoQty
    \/ op.target_quantity <= op.max_quantity

QuantityDomain(op) ==
    /\ \/ op.min_quantity = NoQty
       \/ op.min_quantity <= op.target_quantity
    /\ \/ op.max_quantity = NoQty
       \/ op.target_quantity <= op.max_quantity

\* the domains of the location fields
LocationDomain(op) ==
    /\ op.warehouse_location \in Warehouses \cup {None}
    /\ op.storage_location \in Storages \cup {None}
    /\ op.provisioning_location \in Storages \cup {None}
    /\ op.overflowing_location \in Storages \cup {None}

Role(op, location_name) ==
    IF location_name = "provisioning_location"
    THEN op.provisioning_location ELSE op.overflowing_location

ConcurrentSameStorage(db, orders, location_name) ==
    LET internals == {o \in db : o.id \in {x.id : x \in orders}
                                  /\ o.type = "internal"}
    IN \E op \in internals :
          /\ Role(op, location_name) # None
          /\ \E r \in db :
                /\ r.product = op.product
                /\ Role(r, location_name) = op.storage_location
                /\ r.storage_location = op.storage_location
                /\ r.company = op.company
                /\ r.type = "internal"

\* a concurrency search that leaves the validated record itself out
ConcurrentOthers(db, orders, location_name) ==
    LET internals == {o \in db : o.id \in {x.id : x \in orders}
                                  /\ o.type = "internal"}
    IN \E op \in internals :
          /\ Role(op, location_name) # None
          /\ \E r \in db :
                /\ r.id # op.id
                /\ r.product = op.product
                /\ Role(r, location_name) = op.storage_location
                /\ r.storage_location = Role(op, location_name)
                /\ r.company = op.company
                /\ r.type = "internal"

\* check_concurrent_internal for one of the two location names: TRUE when the
\* search finds a record and the error is raised
Concurrent(db, orders, location_name) ==
    LET internals == {o \in db : o.id \in {x.id : x \in orders}
                                  /\ o.type = "internal"}
    IN \E op \in internals :
          /\ Role(op, location_name) # None
          /\ \E r \in db :
                /\ r.product = op.product
                /\ Role(r, location_name) = op.storage_location
                /\ r.storage_location = Role(op, location_name)
                /\ r.company = op.company
                /\ r.type = "internal"

Type2FieldSlip(op) ==
    IF op.type = "purchase" THEN op.warehouse_location
    ELSE op.provisioning_location

\* _type2field applied to a record: the value of the monitored location field
Type2Field(op) ==
    IF op.type = "purchase" THEN op.warehouse_location
    ELSE op.storage_location

\* the value of the field named _type2field(type) on a record r
FieldOf(r, type) == Type2Field([r EXCEPT !.type = type])

\* check_uniqueness: TRUE when the search finds a record and the error is raised
NotUnique(db, orders) ==
    \E op \in orders : \E r \in db :
        /\ r.product = op.product
        /\ FieldOf(r, op.type) = Type2Field(op)
        /\ r.id # op.id
        /\ r.company = op.company

\* OrderPoint.validate with the field validation of the save: the message of
\* the error raised for the records orders in the table db, or None
Validate(db, orders) ==
    IF \E op \in orders : ~ (RequiredFields(op) /\ LocationDomain(op)
                              /\ QuantityDomain(op))
    THEN "field_validation"
    ELSE IF Concurrent(db, orders, "provisioning_location")
    THEN "msg_order_point_concurrent_provisioning_location_internal"
    ELSE IF Concurrent(db, orders, "overflowing_location")
    THEN "msg_order_point_concurrent_overflowing_location_internal"
    ELSE IF NotUnique(db, orders)
    THEN "msg_order_point_unique"
    ELSE None

\* the values a client may send for a new record
OrderPointValues ==
    {OrderPoint(0, "internal", p, None, s, pr, ov, q[1], q[2], q[3], c) :
        p \in OrderedProducts, s \in {"L1", "L2"},
        pr \in {None, "L1", "L2"}, ov \in {None, "L1", "L2"},
        q \in Thresholds, c \in Companies}
    \cup
    {OrderPoint(0, "purchase", p, "WH", None, None, None, q[1], q[2], q[3], c) :
        p \in OrderedProducts, q \in Thresholds, c \in Companies}

\* the records a client may turn a stored record into with one write: one
\* location field, the company or the three thresholds are changed
WriteValues(old) ==
    {[old EXCEPT !.storage_location = s] : s \in {"L1", "L2"}}
    \cup {[old EXCEPT !.provisioning_location = l] : l \in {None, "L1", "L2"}}
    \cup {[old EXCEPT !.overflowing_location = l] : l \in {None, "L1", "L2"}}
    \cup {[old EXCEPT !.company = c] : c \in Companies}
    \cup {[old EXCEPT !.min_quantity = q[1], !.target_quantity = q[2],
                      !.max_quantity = q[3]] : q \in Thresholds}

\* OrderPoint.create of one record: insert, validate, roll back on error
Create(values) ==
    /\ pc = "idle"
    /\ nextId <= MaxOps
    /\ LET rec == [values EXCEPT !.id = nextId]
           db == ops \cup {rec}
           msg == Validate(db, {rec})
       IN /\ error' = msg
          /\ IF msg = None
             THEN ops' = db /\ nextId' = nextId + 1
             ELSE UNCHANGED <<ops, nextId>>
    /\ UNCHANGED <<cfgVars, planVars, wizVars, conVars>>

\* OrderPoint.write on one internal record: update, validate, roll back on
\* error
Write(old, rec) ==
    /\ pc = "idle"
    /\ old \in ops /\ old.type = "internal"
    /\ rec # old
    /\ LET db == (ops \ {old}) \cup {rec}
           msg == Validate(db, {rec})
       IN /\ error' = msg
          /\ IF msg = None THEN ops' = db ELSE UNCHANGED ops
    /\ UNCHANGED <<nextId, cfgVars, planVars, wizVars, conVars>>

\* ------------------------------------------------------------------------
\* Collaborators of the planner (stock module): forecast, lead time, transit
\* ------------------------------------------------------------------------
Days == 0..lead

RECURSIVE SumSeq(_)
SumSeq(q) == IF q = <<>> THEN 0 ELSE Head(q) + SumSeq(Tail(q))

RECURSIVE Flatten(_)
Flatten(qq) == IF qq = <<>> THEN <<>> ELSE Head(qq) \o Flatten(Tail(qq))

RECURSIVE SeqOfSet(_)
SeqOfSet(S) ==
    IF S = {} THEN <<>>
    ELSE LET x == CHOOSE y \in S : TRUE IN <<x>> \o SeqOfSet(S \ {x})

\* all the moves of the shipments of db
AllMoves(db) == Flatten([i \in 1..Len(db) |-> db[i].moves])

\* quantity on hand and planned customer moves, without the requests
BaseQty(l, p, d) ==
    stock[l] - (IF l = "L2" /\ demand >= 1 /\ d >= demand THEN 1 ELSE 0)

\* what a planned move adds to the forecast of location l on day d
MoveEffect(m, l, p, d) ==
    IF m.product = p /\ m.planned_date <= d
    THEN (IF m.to_location = l THEN m.quantity ELSE 0)
         - (IF m.from_location = l THEN m.quantity ELSE 0)
    ELSE 0

\* Product.products_by_location in the context forecast=True,
\* stock_date_end=d, for one (location, product)
products_by_location(db, l, p, d) ==
    LET ms == AllMoves(db)
    IN BaseQty(l, p, d)
       + SumSeq([i \in 1..Len(ms) |-> MoveEffect(ms[i], l, p, d)])

Warehouse(l) == IF l \in remote THEN "WH2" ELSE "WH"

\* ShipmentInternal.transit_location
transit_location(from, to) ==
    IF Warehouse(from) # Warehouse(to) THEN Transit ELSE None

\* ShipmentInternal.on_change_with_planned_start_date
planned_start_date(from, to, date) ==
    IF Warehouse(from) # Warehouse(to) THEN date - lead ELSE date

\* ShipmentInternal._set_transit on one shipment: each direct move is written
\* to end at the transit location on the start date and copied as a move from
\* the transit location on the planned date
set_transit(s) ==
    LET t == transit_location(s.from_location, s.to_location)
        direct == SelectSeq(s.moves,
                    LAMBDA m : m.from_location # t /\ m.to_location # t)
        others == SelectSeq(s.moves,
                    LAMBDA m : ~ (m.from_location # t /\ m.to_location # t))
    IN IF t = None \/ direct = <<>> THEN s
       ELSE [s EXCEPT !.moves =
                others
                \o [i \in 1..Len(direct) |->
                        [direct[i] EXCEPT !.to_location = t,
                                          !.planned_date = s.planned_start_date]]
                \o [i \in 1..Len(direct) |->
                        [direct[i] EXCEPT !.from_location = t,
                                          !.planned_date = s.planned_date]]]

\* ------------------------------------------------------------------------
\* shipment.py: generate_internal_shipment
\* ------------------------------------------------------------------------
\* lines 61-65: the requests left by the optional clean
CleanKeepsAll(db, c) == db

CleanDeletesAll(db, c) == IF c THEN <<>> ELSE db

Clean(db, c) ==
    IF c THEN SelectSeq(db, LAMBDA s : s.state # "request") ELSE db

\* lines 68-79: the internal order points and product2op
InternalOps == {op \in ops : op.type = "internal"}

HasOp(l, p) ==
    \E op \in InternalOps : op.storage_location = l /\ op.product = p

product2op(l, p) ==
    LET cands == {op \in InternalOps :
                    op.storage_location = l /\ op.product = p}
    IN CHOOSE op \in cands : \A o \in cands : o.id <= op.id

\* lines 80-83
provisioned == {l \in Storages : locProv[l] # None}

id2location == {op.storage_location : op \in InternalOps} \cup provisioned

\* lines 86-93
product_ids ==
    IF provisioned # {} THEN Products
    ELSE {op.product : op \in InternalOps}

\* lines 108-116: is the pair planned, and with which thresholds and source
HasPolicy(l, p) == HasOp(l, p) \/ locProv[l] # None

min_qty(l, p) == IF HasOp(l, p) THEN product2op(l, p).min_quantity ELSE 0

max_qty(l, p) == IF HasOp(l, p) THEN product2op(l, p).max_quantity ELSE 0

location_first(l, p) ==
    IF locProv[l] # None THEN locProv[l]
    ELSE product2op(l, p).provisioning_location

provisioning_location(l, p) ==
    IF HasOp(l, p) THEN product2op(l, p).provisioning_location
    ELSE locProv[l]

\* line 117: qty < min_qty, None being smaller than every number
BelowOrAtMin(qty, min) == min # NoQty /\ qty <= min

NoneAsZero(qty, min) == qty < (IF min = NoQty THEN 0 ELSE min)

BelowMin(qty, min) == min # NoQty /\ qty < min

\* the (location, product) pairs for which line 120 is reached on day d
Deficits(db, d) ==
    {lp \in id2location \X product_ids :
        /\ HasPolicy(lp[1], lp[2])
        /\ BelowMin(products_by_location(db, lp[1], lp[2], d),
                    min_qty(lp[1], lp[2]))}

\* line 120 raises TypeError when max_quantity is None
Raises(db) ==
    \E d \in Days : \E lp \in Deficits(db, d) : max_qty(lp[1], lp[2]) = NoQty

\* lines 122-154: the shipments of day d, one per (from, to) pair
DayShipments(db, d) ==
    LET defs == Deficits(db, d)
        pairs == {<<provisioning_location(lp[1], lp[2]), lp[1]>> : lp \in defs}
        Shipment(ft) ==
            LET prods == SeqOfSet({lp[2] : lp \in
                            {x \in defs : x[1] = ft[2] /\
                                provisioning_location(x[1], x[2]) = ft[1]}})
            IN [from_location |-> ft[1], to_location |-> ft[2],
                planned_date |-> d,
                planned_start_date |-> planned_start_date(ft[1], ft[2], d),
                state |-> "request",
                moves |-> [i \in 1..Len(prods) |->
                    [from_location |-> ft[1], to_location |-> ft[2],
                     planned_date |-> d, product |-> prods[i],
                     quantity |-> max_qty(ft[2], prods[i])
                        - products_by_location(db, ft[2], prods[i], d)]]]
        order == SeqOfSet(pairs)
    IN [i \in 1..Len(order) |-> Shipment(order[i])]

\* lines 95-155: the shipments of one pass over the horizon
PassShipmentsOneMore(db) ==
    Flatten([i \in 1..(lead + 2) |-> DayShipments(db, i - 1)])

PassShipments(db) ==
    Flatten([i \in 1..(lead + 1) |-> DayShipments(db, i - 1)])

\* line 159 on the saved shipments
SetTransitAll(new) == [i \in 1..Len(new) |-> set_transit(new[i])]

\* lines 162-163 for the shipments lo..hi of one invocation
RemoveTransit(db, lo, hi) ==
    [i \in 1..Len(db) |->
        IF i >= lo /\ i <= hi
        THEN [db[i] EXCEPT !.moves = SelectSeq(db[i].moves,
                LAMBDA m : m.from_location
                    # transit_location(db[i].from_location, db[i].to_location))]
        ELSE db[i]]

\* the forecast of every monitored pair on every day of the horizon
ForecastTable(db) ==
    [x \in Storages \X Products \X Days |->
        products_by_location(db, x[1], x[2], x[3])]

\* an earlier invocation of the running chain started from the forecast the
\* next one starts from: the chain of invocations repeats without end
Repeats ==
    \E j \in 1..Len(stack) :
        ForecastTable(SubSeq(reqs, 1, stack[j].lo - 1)) = ForecastTable(reqs)

\* the requests as a bag: shipment -> number of copies
BagOf(db) ==
    [s \in {db[i] : i \in 1..Len(db)} |->
        Cardinality({i \in 1..Len(db) : db[i] = s})]

Finish(db, c) ==
    /\ pc' = "idle"
    /\ stack' = <<>>
    /\ reqs' = db
    /\ results' = IF c THEN Append(results, BagOf(db)) ELSE results

\* the top level call generate_internal_shipment(clean) up to its recursive
\* call (line 160) or its return
Generate(c) ==
    /\ pc = "idle"
    /\ runs < MaxRuns
    /\ runs' = runs + 1
    /\ clean' = c
    /\ LET db == Clean(reqs, c)
           new == PassShipments(db)
       IN IF Raises(db)
          THEN pc' = "error" /\ reqs' = db /\ UNCHANGED <<stack, results>>
          ELSE IF new = <<>>
          THEN Finish(db, c)
          ELSE /\ reqs' = db \o SetTransitAll(new)
               /\ stack' = <<[lo |-> Len(db) + 1, hi |-> Len(db) + Len(new)]>>
               /\ pc' = "call"
               /\ UNCHANGED results
    /\ UNCHANGED <<regVars, cfgVars, wizVars, conVars>>

\* the recursive call generate_internal_shipment(False) of line 160 up to its
\* own recursive call or its return
Recurse ==
    /\ pc = "call"
    /\ LET new == PassShipments(reqs)
       IN IF Raises(reqs)
          THEN pc' = "error" /\ UNCHANGED <<reqs, stack>>
          ELSE IF new = <<>>
          THEN pc' = "return" /\ UNCHANGED <<reqs, stack>>
          ELSE IF Repeats
          THEN pc' = "diverged" /\ UNCHANGED <<reqs, stack>>
          ELSE /\ Len(stack) < MaxDepth
               /\ reqs' = reqs \o SetTransitAll(new)
               /\ stack' = Append(stack,
                    [lo |-> Len(reqs) + 1, hi |-> Len(reqs) + Len(new)])
               /\ pc' = "call"
    /\ UNCHANGED <<regVars, cfgVars, clean, runs, results, wizVars, conVars>>

\* lines 161-164 of the innermost running invocation: remove the transit
\* split of its shipments and return them
Return ==
    /\ pc = "return"
    /\ LET top == stack[Len(stack)]
           db == RemoveTransit(reqs, top.lo, top.hi)
       IN IF Len(stack) = 1
          THEN Finish(db, clean)
          ELSE /\ reqs' = db
               /\ stack' = SubSeq(stack, 1, Len(stack) - 1)
               /\ pc' = "return"
               /\ UNCHANGED results
    /\ UNCHANGED <<regVars, cfgVars, clean, runs, wizVars, conVars>>

\* ------------------------------------------------------------------------
\* stock.py: the supply wizard
\* ------------------------------------------------------------------------
\* line 44: Date.today() as a day number
today == 0

\* lines 46-51 and 56-61: the kinds of late draft moves, in the order of the
\* two searches
Kinds == <<"supplier", "customer">>

\* lines 52 and 62: the name of the warning of a kind on a day
WarningName(kind, day) ==
    IF kind = "supplier" THEN <<"stock.supply.supplier", day>>
    ELSE <<"stock.supply..customer", day>>

\* Warning.check: the user has not acknowledged the warning of that name
Warning_check(name) == name \notin acks

\* lines 46-65: the warning create_ raises, None when it raises none
RaisedSupplierOnly ==
    IF "supplier" \in late /\ Warning_check(WarningName("supplier", today))
    THEN WarningName("supplier", today)
    ELSE None

RaisedWarning ==
    LET due == SelectSeq(Kinds, LAMBDA k :
                    k \in late /\ Warning_check(WarningName(k, today)))
    IN IF due = <<>> THEN None ELSE WarningName(Head(due), today)

\* shipment.py line 41: the parameters generate_internal_shipment takes
planner_parameters == {"clean"}

\* lines 99-100: the keyword arguments generate_internal passes
generate_internal_keywords == {"clean", "warehouses"}

\* lines 91-100: generate_internal; a keyword the planner does not take
\* raises TypeError before the planner runs
generate_internal(c) ==
    IF generate_internal_keywords \subseteq planner_parameters
    THEN "called"
    ELSE "TypeError"

\* lines 38-89: the transition create_. It raises the warning of the first
\* kind of late moves not yet acknowledged; otherwise it enters the loop of
\* lines 67-73 with first = True, where the call of generate_internal raises
\* and ends the transition: nothing has been written by then.
transition_create_ ==
    /\ pc = "idle"
    /\ IF RaisedWarning # None
       THEN /\ wizard' = "warning"
            /\ warned' = RaisedWarning
            /\ calls' = <<>>
       ELSE LET r == generate_internal(TRUE)
            IN /\ r = "TypeError"
               /\ wizard' = "error"
               /\ warned' = None
               /\ calls' = <<[type |-> "internal", clean |-> TRUE,
                              result |-> r]>>
    /\ UNCHANGED <<regVars, cfgVars, planVars, acks, late, conVars>>

\* the user acknowledges the warning create_ raised
Acknowledge ==
    /\ wizard = "warning"
    /\ acks' = acks \cup {warned}
    /\ wizard' = "start"
    /\ UNCHANGED <<regVars, cfgVars, planVars, warned, late, calls, conVars>>

\* no wizard session has run
WizardIdle ==
    /\ wizard = "start" /\ warned = None /\ acks = {} /\ late = {}
    /\ calls = <<>>

\* ------------------------------------------------------------------------
\* shipment.py: two invocations of generate_internal_shipment at a time
\* ------------------------------------------------------------------------
Invocations == {1, 2}

\* no concurrent invocation has started
InvocationsIdle ==
    /\ inv = [p \in Invocations |->
                [pc |-> "idle", clean |-> FALSE, after |-> FALSE,
                 pending |-> <<>>, passes |-> 0]]
    /\ owners = <<>>
    /\ raced = FALSE

Other(p) == CHOOSE q \in Invocations : q # p

\* the owners of the shipments of db that a clean keeps
RECURSIVE KeptOwners(_, _)
KeptOwners(db, own) ==
    IF db = <<>> THEN <<>>
    ELSE (IF Head(db).state # "request" THEN <<Head(own)>> ELSE <<>>)
         \o KeptOwners(Tail(db), Tail(own))

\* lines 48-65: invocation p starts with the argument clean = c and deletes
\* the requests if it is set
Begin(p, c) ==
    /\ inv[p].pc = "idle"
    /\ reqs' = Clean(reqs, c)
    /\ owners' = IF c THEN KeptOwners(reqs, owners) ELSE owners
    /\ inv' = [inv EXCEPT ![p].pc = "begun", ![p].clean = c,
                          ![p].after = (inv[Other(p)].pc = "done")]
    /\ UNCHANGED <<regVars, cfgVars, pc, stack, clean, runs, results,
                   wizVars, raced>>

\* lines 95-155: one pass of p over the horizon reads the forecasts and
\* builds its shipments without saving them
Read(p) ==
    /\ inv[p].pc \in {"begun", "saved"}
    /\ IF Raises(reqs)
       THEN inv' = [inv EXCEPT ![p].pc = "error"]
       ELSE inv' = [inv EXCEPT ![p].pc = "read",
                               ![p].pending = PassShipments(reqs)]
    /\ UNCHANGED <<regVars, cfgVars, planVars, wizVars, owners, raced>>

\* lines 157-159: the shipments p saves are those its pass has built
SavedFresh(p) == SetTransitAll(PassShipments(reqs))

Saved(p) == SetTransitAll(inv[p].pending)

\* lines 156-164: p saves the shipments of its pass, splits their transit
\* and goes on with the next pass (line 160); after a pass without shipment
\* every invocation of its chain returns and deletes the moves that leave
\* the transit location of its shipments
Save(p) ==
    /\ inv[p].pc = "read"
    /\ IF inv[p].pending = <<>>
       THEN /\ reqs' = [i \in 1..Len(reqs) |->
                        IF owners[i] = p
                        THEN RemoveTransit(reqs, i, i)[i]
                        ELSE reqs[i]]
            /\ inv' = [inv EXCEPT ![p].pc = "done"]
            /\ UNCHANGED <<owners, raced>>
       ELSE /\ inv[p].passes < MaxDepth
            /\ reqs' = reqs \o Saved(p)
            /\ owners' = owners \o [i \in 1..Len(Saved(p)) |-> p]
            /\ inv' = [inv EXCEPT ![p].pc = "saved", ![p].pending = <<>>,
                                  ![p].passes = @ + 1]
            /\ raced' = (raced \/ (/\ inv[p].passes = 0
                                   /\ inv[Other(p)].pc = "read"
                                   /\ inv[Other(p)].passes = 0
                                   /\ inv[Other(p)].pending # <<>>))
    /\ UNCHANGED <<regVars, cfgVars, pc, stack, clean, runs, results,
                   wizVars>>

\* ------------------------------------------------------------------------
\* The planner on every configuration the registry accepts
\* ------------------------------------------------------------------------
\* internal order points of product a: without thresholds, with min_quantity
\* only, with both
PlanOrderPoints(s) ==
    {OrderPoint(0, "internal", "a", None, s, None, None,
                NoQty, MinQty, NoQty, "c1"),
     OrderPoint(0, "internal", "a", None, s, "P1", None,
                MinQty, MinQty, NoQty, "c1")}
    \cup {OrderPoint(0, "internal", "a", None, s, pr, "P1",
                MinQty, MinQty, MaxQty, "c1") : pr \in Storages \ {s}}

PlanOps ==
    {S \in {{[o1 EXCEPT !.id = 1]} : o1 \in PlanOrderPoints("L1")}
           \cup {{[o2 EXCEPT !.id = 2]} : o2 \in PlanOrderPoints("L2")}
           \cup {{[o1 EXCEPT !.id = 1], [o2 EXCEPT !.id = 2]} :
                    o1 \in PlanOrderPoints("L1"), o2 \in PlanOrderPoints("L2")}
           \cup {{}} :
        Validate(S, S) = None}

PlanInit ==
    /\ ops \in PlanOps
    /\ nextId = Cardinality(ops) + 1 /\ error = None
    /\ locProv \in {f \in [Storages -> Storages \cup {None}] :
            /\ \A l \in Storages : f[l] # l
            /\ \A l, k \in Storages : f[l] # None /\ f[k] # None => l = k}
    /\ stock \in [Storages -> {-1, 0, MinQty}]
    /\ \A l \in Storages :
            (~ \E p \in Products : HasPolicy(l, p)) => stock[l] = MinQty
    /\ lead \in 0..MaxLead
    /\ demand \in 0..lead
    /\ remote \in {{}, {"L2"}}
    /\ reqs = <<>> /\ pc = "idle" /\ stack = <<>> /\ clean = TRUE
    /\ runs = 0 /\ results = <<>>
    /\ WizardIdle /\ InvocationsIdle

\* the clean arguments tried: on an empty table both values do the same
CleanArgs == IF reqs = <<>> THEN {TRUE} ELSE BOOLEAN

Next ==
    \/ \E c \in CleanArgs : Generate(c)
    \/ Recurse
    \/ Return

Spec == PlanInit /\ [][Next]_vars

\* ------------------------------------------------------------------------
\* Claims on the planner
\* ------------------------------------------------------------------------
Returned == pc = "idle" /\ runs >= 1

\* the requests of db from one location to another
FromTo(db, from, to) ==
    SelectSeq(db, LAMBDA s : s.from_location = from /\ s.to_location = to)

\* location l carries an order point with both thresholds and is the only
\* planned location: nothing but its own replenishment moves its forecast
OnlyPolicy(l) ==
    /\ HasOp(l, "a")
    /\ min_qty(l, "a") # NoQty /\ max_qty(l, "a") # NoQty
    /\ id2location = {l}

\* the first day on which the forecast without requests is below min
FirstDeficit(l) ==
    CHOOSE d \in Days :
        /\ BaseQty(l, "a", d) < min_qty(l, "a")
        /\ \A e \in Days : e < d => BaseQty(l, "a", e) >= min_qty(l, "a")

\* C1 as stated: when the forecast of the only planned location L is below
\* min from day d on, one run leaves exactly one request from its provisioning
\* location to L, dated d, whose moves carry max - q, and none for later days.
C1_SingleShipment ==
    \A l \in Storages :
        (/\ Returned /\ runs = 1
         /\ OnlyPolicy(l)
         /\ \E d \in Days : BaseQty(l, "a", d) < min_qty(l, "a"))
        => LET d == FirstDeficit(l)
               made == FromTo(reqs, provisioning_location(l, "a"), l)
           IN /\ Len(made) = 1
              /\ made[1].planned_date = d
              /\ \A k \in 1..Len(made[1].moves) :
                    made[1].moves[k].quantity
                        = max_qty(l, "a") - BaseQty(l, "a", d)

\* C2 as stated: a location with an order point whose forecast before the run
\* is constant and at most max has, once the run has returned, a forecast of
\* at most max on every day of the horizon.
C2_NeverAboveMax ==
    \A l \in Storages :
        (/\ Returned /\ runs = 1
         /\ HasOp(l, "a") /\ max_qty(l, "a") # NoQty
         /\ \A d \in Days : /\ BaseQty(l, "a", d) = BaseQty(l, "a", 0)
                            /\ BaseQty(l, "a", d) <= max_qty(l, "a"))
        => \A d \in Days :
                products_by_location(reqs, l, "a", d) <= max_qty(l, "a")

\* C3 as stated: the chain of recursive invocations reaches an invocation
\* that creates no shipment; it never repeats without end.
C3_Terminates == pc # "diverged"

\* L1 is provisioned from P1 and L2 from L1, both with min and max, and P1 is
\* not planned itself
Chained ==
    /\ provisioned = {}
    /\ HasOp("L1", "a") /\ HasOp("L2", "a")
    /\ min_qty("L1", "a") # NoQty /\ max_qty("L1", "a") # NoQty
    /\ min_qty("L2", "a") # NoQty /\ max_qty("L2", "a") # NoQty
    /\ provisioning_location("L1", "a") = "P1"
    /\ provisioning_location("L2", "a") = "L1"

\* C4 as stated: with chained order points, once the run has returned the
\* forecast of L1 and of L2 is at least their min_quantity on every day and a
\* further pass with clean=False creates no shipment.
C4_ChainConverges ==
    (Returned /\ Chained)
    => /\ \A l \in {"L1", "L2"} : \A d \in Days :
            products_by_location(reqs, l, "a", d) >= min_qty(l, "a")
       /\ PassShipments(reqs) = <<>>

\* the requests a step reads the forecast from
ReadBy == IF pc = "idle" THEN Clean(reqs, clean') ELSE reqs

\* C5: a pass creates no move into a planned location dated a day on which
\* the forecast it reads for that location and product is at least min
\* (equal included).
C5_NoMoveOnSufficiency ==
    [][pc' = "call" =>
        \A i \in (Len(ReadBy) + 1)..Len(reqs') :
            \A k \in 1..Len(reqs'[i].moves) :
                LET m == reqs'[i].moves[k]
                IN m.to_location \in Storages =>
                    ~ (products_by_location(ReadBy, m.to_location, m.product,
                                            m.planned_date)
                        >= min_qty(m.to_location, m.product))]_vars

\* C5 witness: a run has planned shipments but none into a location whose
\* forecast equals its min_quantity on every day
C5_Witness ==
    /\ Returned /\ reqs # <<>>
    /\ \E l \in Storages :
          /\ HasOp(l, "a") /\ min_qty(l, "a") # NoQty
          /\ \A d \in Days : BaseQty(l, "a", d) = min_qty(l, "a")
          /\ \A i \in 1..Len(reqs) : reqs[i].to_location # l

\* C6: every completed run with clean=True over the same order points,
\* locations, lead times and stock leaves the same request shipments.
C6_CleanRestart ==
    \A i \in 1..Len(results) : \A j \in 1..Len(results) :
        results[i] = results[j]

\* C6 witness: two runs with clean=True have completed and left requests
C6_Witness ==
    /\ Len(results) >= 2
    /\ DOMAIN results[1] # {}

\* C10 as stated: once the top level call has returned, no request has a move
\* leaving its transit location and every move of a request goes from the
\* source of the shipment to its destination.
C10_TransitCollapse ==
    Returned =>
        \A i \in 1..Len(reqs) : \A k \in 1..Len(reqs[i].moves) :
            LET s == reqs[i]
                m == s.moves[k]
            IN /\ m.from_location
                    # transit_location(s.from_location, s.to_location)
               /\ m.from_location = s.from_location
               /\ m.to_location = s.to_location

\* C16 as stated: every move of a request has a strictly positive quantity
\* and the planner raises no error while it computes a quantity.
C16_PositiveQuantities ==
    /\ pc # "error"
    /\ \A i \in 1..Len(reqs) : \A k \in 1..Len(reqs[i].moves) :
            reqs[i].moves[k].quantity > 0

DatedMoves(db) ==
    UNION {{[move |-> db[i].moves[k], day |-> db[i].planned_date] :
                k \in 1..Len(db[i].moves)} : i \in 1..Len(db)}

\* the internal order points of a location and a product
OpsOf(l, p) ==
    {op \in ops : /\ op.type = "internal" /\ op.storage_location = l
                  /\ op.product = p}

\* a step that runs one pass over the horizon to its end: the pass of a top
\* level call or of a recursive call that does not raise
PassStep ==
    /\ \/ pc = "idle" /\ runs' = runs + 1
       \/ pc = "call"
    /\ pc' \notin {"error", "diverged"}

\* C18: a move a pass creates into a location and for a product that have an
\* order point comes from the provisioning location of the order point and
\* carries its max minus a forecast below its min, whatever the location
\* declares; for a pair without order point a pass creates a move exactly
\* for each day with a negative forecast q, from the provisioning location of
\* the location and of quantity -q.
C18_PolicyPrecedence ==
    [][PassStep =>
        \A read \in {ReadBy} : \A made \in {DatedMoves(PassShipments(read))} :
           /\ \A x \in made :
                LET m == x.move
                    q == products_by_location(read, m.to_location,
                                              m.product, x.day)
                IN IF OpsOf(m.to_location, m.product) # {}
                   THEN \E op \in OpsOf(m.to_location, m.product) :
                            /\ m.from_location = op.provisioning_location
                            /\ op.min_quantity # NoQty
                            /\ q < op.min_quantity
                            /\ m.quantity = op.max_quantity - q
                   ELSE /\ m.from_location = locProv[m.to_location]
                        /\ q < 0
                        /\ m.quantity = 0 - q
           /\ \A l \in Storages : \A p \in Products : \A d \in Days :
                (/\ OpsOf(l, p) = {}
                 /\ locProv[l] # None
                 /\ products_by_location(read, l, p, d) < 0)
                => \E x \in made :
                        /\ x.day = d
                        /\ x.move.to_location = l
                        /\ x.move.product = p]_vars

\* C18 witness: a pass has planned product a into a location from the
\* provisioning location of its order point and product b into the same
\* location from the different provisioning location the location declares
C18_Witness ==
    /\ pc = "call" /\ Len(stack) = 1
    /\ \E l \in Storages : \E op \in OpsOf(l, "a") :
            /\ locProv[l] # None
            /\ locProv[l] # op.provisioning_location
            /\ \E x \in DatedMoves(reqs) :
                    /\ x.move.product = "a"
                    /\ x.move.from_location = op.provisioning_location
            /\ \E x \in DatedMoves(reqs) :
                    /\ x.move.product = "b"
                    /\ x.move.from_location = locProv[l]

\* a location and a product without provisioning source: neither an order
\* point nor a provisioning location of the location, or an order point with
\* neither min_quantity nor provisioning location
Unresolvable(l, p) ==
    \/ OpsOf(l, p) = {} /\ locProv[l] = None
    \/ \E op \in OpsOf(l, p) :
            op.min_quantity = NoQty /\ op.provisioning_location = None

\* C19: a pass saves no move into a location and product without
\* provisioning source; if it raises, an order point with min_quantity and
\* without max_quantity has a forecast below its min, so that the pair
\* without source is not the cause; if it
\* does not raise, every pair whose order point has a forecast below min gets
\* a move of max minus the forecast and every other pair with a provisioning
\* location of the location and a negative forecast q a move of -q.
C19_SilentNoOp ==
    [][(/\ \/ pc = "idle" /\ runs' = runs + 1
           \/ pc = "call"
        /\ pc' # "diverged") =>
        \A read \in {ReadBy} :
           /\ \A i \in (Len(read) + 1)..Len(reqs') :
                \A k \in 1..Len(reqs'[i].moves) :
                    ~ Unresolvable(reqs'[i].to_location,
                                   reqs'[i].moves[k].product)
           /\ pc' = "error" =>
                \E l \in Storages : \E p \in Products : \E d \in Days :
                    \E op \in OpsOf(l, p) :
                        /\ op.min_quantity # NoQty
                        /\ op.max_quantity = NoQty
                        /\ products_by_location(read, l, p, d)
                                < op.min_quantity
           /\ pc' # "error" =>
                \A l \in Storages : \A p \in Products : \A d \in Days :
                    \A q \in {products_by_location(read, l, p, d)} :
                        LET Planned(n) ==
                                \E i \in (Len(read) + 1)..Len(reqs') :
                                    /\ reqs'[i].to_location = l
                                    /\ reqs'[i].planned_date = d
                                    /\ \E k \in 1..Len(reqs'[i].moves) :
                                        /\ reqs'[i].moves[k].product = p
                                        /\ reqs'[i].moves[k].quantity = n
                        IN /\ \A op \in OpsOf(l, p) :
                                (op.min_quantity # NoQty
                                    /\ q < op.min_quantity)
                                => Planned(op.max_quantity - q)
                           /\ (/\ OpsOf(l, p) = {} /\ locProv[l] # None
                               /\ q < 0)
                                => Planned(0 - q)]_vars

\* a location and a product the pass looks at, without provisioning source,
\* with a negative forecast on every day and no move planned into them
LeftAlone(l, p) ==
    /\ Unresolvable(l, p)
    /\ l \in id2location /\ p \in product_ids
    /\ \A d \in Days : BaseQty(l, p, d) < 0
    /\ \A x \in DatedMoves(reqs) :
            ~ (x.move.to_location = l /\ x.move.product = p)

\* C19 witness: the first pass of a run has planned a shipment and left
\* alone a pair without order point and a pair whose order point has no
\* min_quantity
C19_Witness ==
    /\ pc = "call" /\ Len(stack) = 1 /\ reqs # <<>>
    /\ \E l \in Storages : \E p \in Products :
            OpsOf(l, p) = {} /\ LeftAlone(l, p)
    /\ \E l \in Storages : \E p \in Products :
            OpsOf(l, p) # {} /\ LeftAlone(l, p)

\* get_location: the monitored location of an order point
get_location(op) ==
    IF op.type = "purchase" THEN op.warehouse_location
    ELSE IF op.type = "internal" THEN op.storage_location
    ELSE None

\* ------------------------------------------------------------------------
\* The registry on its own: creates and updates of order points
\* ------------------------------------------------------------------------
IdleConfig ==
    /\ locProv = [l \in Storages |-> None]
    /\ stock = [l \in Storages |-> 0]
    /\ demand = 0 /\ lead = 0 /\ remote = {}
    /\ reqs = <<>> /\ pc = "idle" /\ stack = <<>> /\ clean = TRUE
    /\ runs = 0 /\ results = <<>>
    /\ WizardIdle /\ InvocationsIdle

RegistryInit ==
    /\ ops = {} /\ nextId = 1 /\ error = None
    /\ IdleConfig

RegistryNext ==
    \/ \E values \in OrderPointValues : Create(values)
    \/ \E old \in ops : \E rec \in WriteValues(old) : Write(old, rec)

RegistrySpec == RegistryInit /\ [][RegistryNext]_vars

\* ------------------------------------------------------------------------
\* Claims on the registry
\* ------------------------------------------------------------------------
SameKey(a, b) ==
    /\ a.product = b.product
    /\ get_location(a) = get_location(b)
    /\ a.company = b.company

\* C7: no two stored order points share (product, monitored location,
\* company), the monitored location being warehouse_location for purchase and
\* storage_location for internal.
C7_Uniqueness ==
    \A a \in ops, b \in ops : a.id # b.id => ~ SameKey(a, b)

\* C7 witness: a save was refused as not unique while a record is stored
C7_Witness ==
    /\ error = "msg_order_point_unique"
    /\ \E a \in ops : a.type = "internal"

Sides(op) == {op.provisioning_location, op.overflowing_location} \ {None}

Paired(a, b) ==
    /\ a.id # b.id
    /\ a.type = "internal" /\ b.type = "internal"
    /\ a.product = b.product /\ a.company = b.company

\* C8 as stated: no two stored internal order points of one product and
\* company have each the storage location of the other as provisioning or
\* overflowing location, in any combination of the two roles.
C8_NoTwoCycleAnyRole ==
    \A a \in ops, b \in ops :
        Paired(a, b) => ~ (/\ a.storage_location \in Sides(b)
                           /\ b.storage_location \in Sides(a))

\* C8 amended: no two stored internal order points of one product and company
\* have each the storage location of the other in the same role (both as
\* provisioning location, or both as overflowing location).
C8_NoTwoCycleSameRole ==
    \A a \in ops, b \in ops :
        Paired(a, b) =>
            \A name \in {"provisioning_location", "overflowing_location"} :
                ~ (/\ Role(b, name) = a.storage_location
                   /\ Role(a, name) = b.storage_location)

\* C8 witness: a save was refused as concurrent while the other record of the
\* pair is stored
C8_Witness ==
    /\ error \in {"msg_order_point_concurrent_provisioning_location_internal",
                  "msg_order_point_concurrent_overflowing_location_internal"}
    /\ \E a \in ops : a.type = "internal" /\ Sides(a) # {}

SelfLoop(op) ==
    /\ op.type = "internal"
    /\ op.storage_location \in Sides(op)

\* C21: an internal order point whose provisioning_location or
\* overflowing_location equals its own storage_location is refused by
\* validation, so no stored internal order point replenishes a location from
\* itself.
C21_NoSelfLoop ==
    \A op \in ops : ~ SelfLoop(op)

\* C21 witness: a save was refused as concurrent while no order point is
\* stored, so the record found by the search is the saved record itself
C21_Witness ==
    /\ error \in {"msg_order_point_concurrent_provisioning_location_internal",
                  "msg_order_point_concurrent_overflowing_location_internal"}
    /\ ops = {}

\* C9: every stored order point has min_quantity <= target_quantity when
\* min_quantity is set and target_quantity <= max_quantity when max_quantity
\* is set.
C9_BoundsOrdering ==
    \A op \in ops :
        /\ op.min_quantity # NoQty => op.min_quantity <= op.target_quantity
        /\ op.max_quantity # NoQty => op.target_quantity <= op.max_quantity

\* C9 witness: a record with min < max is stored and the last save was
\* refused by the field validation
C9_Witness ==
    /\ error = "field_validation"
    /\ \E op \in ops :
          /\ op.min_quantity # NoQty /\ op.max_quantity # NoQty
          /\ op.min_quantity < op.max_quantity

\* ------------------------------------------------------------------------
\* The wizard and the planner on a table that holds other shipments
\* ------------------------------------------------------------------------
\* an internal shipment that is not a request: waiting, from P1 to L2
OtherShipment ==
    [from_location |-> "P1", to_location |-> "L2", planned_date |-> 0,
     planned_start_date |-> 0, state |-> "waiting",
     moves |-> <<[from_location |-> "P1", to_location |-> "L2",
                  planned_date |-> 0, product |-> "a", quantity |-> 1]>>]

SupplyInit ==
    /\ ops \in {S \in PlanOps : \A op \in S : op.storage_location = "L2"}
    /\ nextId = Cardinality(ops) + 1 /\ error = None
    /\ locProv = [l \in Storages |-> None]
    /\ stock \in [Storages -> {-1, 0, MinQty}]
    /\ \A l \in Storages :
            (~ \E p \in Products : HasPolicy(l, p)) => stock[l] = MinQty
    /\ lead \in 0..MaxLead
    /\ demand \in 0..lead
    /\ remote \in {{}, {"L2"}}
    /\ reqs \in {<<>>, <<OtherShipment>>}
    /\ pc = "idle" /\ stack = <<>> /\ clean = TRUE
    /\ runs = 0 /\ results = <<>>
    /\ wizard = "start" /\ warned = None /\ calls = <<>>
    /\ late \in SUBSET {"supplier", "customer"}
    /\ acks \in {{}, {WarningName(k, today - 1) : k \in late}}
    /\ InvocationsIdle

SupplyNext ==
    \/ \E c \in BOOLEAN : Generate(c)
    \/ Recurse
    \/ Return
    \/ transition_create_
    \/ Acknowledge

SupplySpec == SupplyInit /\ [][SupplyNext]_vars

\* ------------------------------------------------------------------------
\* Claims on the wizard
\* ------------------------------------------------------------------------
\* the last create_ was not stopped by a warning and has ended
Passed == wizard \in {"error", "internal"}

\* C11 as stated: a create_ transition that no warning stops finishes, and
\* when it has finished every move of every request has the source, the
\* destination and the planned date of its shipment and none leaves a
\* transit location.
C11_OrchestratorCollapse ==
    Passed =>
        /\ wizard = "internal"
        /\ \A i \in 1..Len(reqs) : \A k \in 1..Len(reqs[i].moves) :
                LET s == reqs[i]
                    m == s.moves[k]
                IN s.state = "request" =>
                    /\ m.from_location = s.from_location
                    /\ m.to_location = s.to_location
                    /\ m.planned_date = s.planned_date
                    /\ m.from_location # Transit

\* ------------------------------------------------------------------------
\* Claims on the planner next to other shipments
\* ------------------------------------------------------------------------
\* the shipments of db that are not requests
NotRequest(db) == SelectSeq(db, LAMBDA s : s.state # "request")

\* C12: a top level call with clean=True leaves of the old table exactly the
\* shipments that are not requests and computes its new shipments from the
\* forecast without the old requests; with clean=False it keeps the whole
\* table; no step of the planner deletes or changes a shipment that is not a
\* request.
C12_CleanFrame ==
    [][/\ NotRequest(reqs') = NotRequest(reqs)
       /\ (pc = "idle" /\ runs' = runs + 1) =>
            IF clean'
            THEN LET kept == NotRequest(reqs)
                 IN /\ Len(reqs') >= Len(kept)
                    /\ SubSeq(reqs', 1, Len(kept)) = kept
                    /\ \A i \in (Len(kept) + 1)..Len(reqs') :
                         \A k \in 1..Len(reqs'[i].moves) :
                            LET n == reqs'[i]
                                m == n.moves[k]
                            IN /\ n.state = "request"
                               /\ m.quantity =
                                    max_qty(n.to_location, m.product)
                                    - products_by_location(kept,
                                        n.to_location, m.product,
                                        n.planned_date)
            ELSE /\ Len(reqs') >= Len(reqs)
                 /\ SubSeq(reqs', 1, Len(reqs)) = reqs]_vars

\* C12 witness: a second run with clean=True has returned after a first one
\* that left requests, and the other shipment is still in the table
C12_Witness ==
    /\ Returned /\ clean /\ Len(results) = 2
    /\ \E s \in DOMAIN results[1] : s.state = "request"
    /\ \E i \in 1..Len(reqs) : reqs[i] = OtherShipment
    /\ \E i \in 1..Len(reqs) : reqs[i].state = "request"

\* a step of the transition create_
CreateStep ==
    /\ wizard' \in {"warning", "error", "internal"}
    /\ <<wizard', warned', calls'>> # <<wizard, warned, calls>>

\* the kinds of late draft moves whose warning of today is not acknowledged
Unacknowledged == {k \in late : WarningName(k, today) \notin acks}

\* C13: while late draft moves of a kind exist whose warning of today is not
\* acknowledged, create_ raises the warning of such a kind and neither calls
\* a generator nor changes a shipment; once the warnings of today of all the
\* late kinds are acknowledged, create_ raises no warning and calls the
\* internal generation.
C13_OverdueWarning ==
    [][CreateStep =>
        IF Unacknowledged # {}
        THEN /\ wizard' = "warning"
             /\ warned' \in {WarningName(k, today) : k \in Unacknowledged}
             /\ calls' = <<>>
             /\ UNCHANGED <<reqs, ops, acks>>
        ELSE /\ wizard' # "warning"
             /\ warned' = None
             /\ calls' # <<>>
             /\ calls'[1].type = "internal"]_vars

\* C13 witness: the warnings of today of both kinds of late moves have been
\* raised and acknowledged and the next create_ has called the internal
\* generation
C13_Witness ==
    /\ late = {"supplier", "customer"}
    /\ \A k \in late : WarningName(k, today) \in acks
    /\ wizard # "warning" /\ calls # <<>>

\* C14 as stated: a create_ transition that no warning stops calls the
\* purchase request generation, and every such call comes after a call of
\* the internal generation that returned without a new shipment.
C14_InternalBeforePurchase ==
    Passed =>
        /\ \E i \in 1..Len(calls) : calls[i].type = "purchase"
        /\ \A i \in 1..Len(calls) :
                calls[i].type = "purchase" =>
                    \E j \in 1..(i - 1) :
                        /\ calls[j].type = "internal"
                        /\ calls[j].result = "none"

\* the calls of the internal generation among the calls of a create_
InternalCalls(cs) == SelectSeq(cs, LAMBDA x : x.type = "internal")

\* C20 as stated: the recursive passes of a planner run keep every shipment
\* of the table; in a create_ transition that no warning stops only the
\* first call of the internal generation has clean=True, and the loop stops
\* with the first such call that returns no shipment.
C20_RequestsSurvive ==
    [][/\ pc \in {"call", "return"} =>
            /\ Len(reqs') >= Len(reqs)
            /\ \A i \in 1..Len(reqs) :
                    /\ reqs'[i].from_location = reqs[i].from_location
                    /\ reqs'[i].to_location = reqs[i].to_location
                    /\ reqs'[i].planned_date = reqs[i].planned_date
                    /\ reqs'[i].state = reqs[i].state
       /\ (CreateStep /\ wizard' # "warning") =>
            \A ic \in {InternalCalls(calls')} :
                /\ ic # <<>>
                /\ \A j \in 1..Len(ic) :
                        /\ ic[j].clean = (j = 1)
                        /\ ic[j].result
                            = IF j = Len(ic) THEN "none" ELSE "shipments"]_vars

\* ------------------------------------------------------------------------
\* Two planner invocations at a time
\* ------------------------------------------------------------------------
ConcurrentInit ==
    /\ ops \in {S \in PlanOps : \A op \in S : op.storage_location = "L2"}
    /\ nextId = Cardinality(ops) + 1 /\ error = None
    /\ locProv = [l \in Storages |-> None]
    /\ stock \in [Storages -> {-1, 0, MinQty}]
    /\ \A l \in Storages :
            (~ \E p \in Products : HasPolicy(l, p)) => stock[l] = MinQty
    /\ lead \in 0..MaxLead
    /\ demand \in 0..lead
    /\ remote \in {{}, {"L2"}}
    /\ reqs = <<>> /\ pc = "idle" /\ stack = <<>> /\ clean = TRUE
    /\ runs = 0 /\ results = <<>>
    /\ WizardIdle /\ InvocationsIdle

ConcurrentNext ==
    \/ \E p \in Invocations : \E c \in BOOLEAN : Begin(p, c)
    \/ \E p \in Invocations : Read(p)
    \/ \E p \in Invocations : Save(p)

ConcurrentSpec == ConcurrentInit /\ [][ConcurrentNext]_vars

\* ------------------------------------------------------------------------
\* Claims on concurrent planner invocations
\* ------------------------------------------------------------------------
\* the shipments invocation p has saved
Owned(p) == {i \in 1..Len(reqs) : owners[i] = p}

BothDone == \A p \in Invocations : inv[p].pc = "done"

\* both invocations have saved a shipment for the same destination and day
\* whose moves carry the quantity missing in the forecast both have read
DoubleProvisioned ==
    \E i \in Owned(1) : \E j \in Owned(2) :
        /\ reqs[i].to_location = reqs[j].to_location
        /\ reqs[i].planned_date = reqs[j].planned_date
        /\ \A x \in {i, j} : \A k \in 1..Len(reqs[x].moves) :
                reqs[x].moves[k].quantity
                    = max_qty(reqs[x].to_location, reqs[x].moves[k].product)
                      - BaseQty(reqs[x].to_location,
                                reqs[x].moves[k].product,
                                reqs[x].planned_date)

FirstOwned(p) == CHOOSE i \in Owned(p) : \A j \in Owned(p) : i <= j

====
